---- MODULE Spec2Model ----
(***************************************************************************)
(* The /analyze handler of the resume analyzer, in its two deployments:   *)
(* src/app.py (the JSON API) and src/api/index.py (the serverless,        *)
(* template-rendering variant).  One request is followed from its receipt *)
(* to its response; every external call (file save, text extraction, LLM, *)
(* HEAD probe, GitHub REST, SMTP) is one step and is recorded, with its   *)
(* outcome, in the history variable calls (specification Spec).  Two      *)
(* requests sharing the upload folder are followed by ConcSpec, at the    *)
(* end of the module.                                                      *)
(*                                                                         *)
(* Strings the code inspects character by character (file names) are      *)
(* sequences of one-character strings; texts the code searches for a word *)
(* are sequences of words; JSON values are tags ("missing" for an absent  *)
(* key, "null" for JSON null, ...).                                        *)
(***************************************************************************)
EXTENDS Integers, Sequences, FiniteSets, TLC

VARIABLES
    variant,         \* "app" (src/app.py) or "api" (src/api/index.py)
    request,         \* the multipart request being handled
    pc,              \* the handler's position
    idx,             \* position of the resume being processed (the for loop)
    uploads,         \* the upload folder: set of file paths present
    jd_text,         \* text of the job description
    resume_text,     \* text of the current resume
    extracted,       \* extracted_json_str: the LLM's reply to the current resume
    parsed_json,     \* parsed_json of the current resume
    all_results,     \* all_results
    csv_output,      \* csv_output (app) / csv_rows (api)
    response,        \* the HTTP response, status 0 while none is sent
    calls,           \* history: the external calls made, in order
    folder,          \* concurrent requests: the shared upload folder, path -> file content
    handlers         \* concurrent requests: the state of each request's handler

\* The state of one request followed alone.
single == << variant, request, pc, idx, uploads, jd_text, resume_text, extracted,
             parsed_json, all_results, csv_output, response, calls >>

\* The state of the requests handled concurrently.
conc == << folder, handlers >>

vars == << single, conc >>

\* Bound of the model: the largest batch of resumes in a request.
MaxResumes == 2

(***************************************************************************)
(* File names                                                              *)
(***************************************************************************)

\* str.lower(), on the letters the file names of the model use.
LowerChar(c) ==
    CASE c = "P" -> "p"
      [] c = "D" -> "d"
      [] c = "F" -> "f"
      [] c = "O" -> "o"
      [] c = "C" -> "c"
      [] c = "X" -> "x"
      [] OTHER -> c

Lower(s) == [i \in 1..Len(s) |-> LowerChar(s[i])]

\* s.endswith(suffix)
EndsWith(s, suffix) ==
    /\ Len(s) >= Len(suffix)
    /\ SubSeq(s, Len(s) - Len(suffix) + 1, Len(s)) = suffix

\* The index of the last '.' of s (s holds one).
LastDot(s) ==
    CHOOSE i \in 1..Len(s) : s[i] = "." /\ \A j \in (i+1)..Len(s) : s[j] # "."

\* filename.rsplit('.', 1)[1]
Extension(s) == SubSeq(s, LastDot(s) + 1, Len(s))

ALLOWED_EXTENSIONS == { <<"p","d","f">>, <<"d","o","c","x">> }

allowed_file(filename) ==
    /\ \E i \in 1..Len(filename) : filename[i] = "."
    /\ Lower(Extension(filename)) \in ALLOWED_EXTENSIONS

\* The characters werkzeug's secure_filename keeps: ASCII letters, digits, '_', '.', '-'.
SafeChars == { "a","b","c","d","e","f","j","n","o","p","t","v","x",
               "P","D","F","O","C","X", ".", "_", "-" }

RECURSIVE KeepSafe(_)
KeepSafe(s) ==
    IF s = <<>> THEN <<>>
    ELSE IF Head(s) \in SafeChars THEN <<Head(s)>> \o KeepSafe(Tail(s))
    ELSE KeepSafe(Tail(s))

RECURSIVE StripLeft(_)
StripLeft(s) ==
    IF s # <<>> /\ Head(s) \in {".", "_"} THEN StripLeft(Tail(s)) ELSE s

RECURSIVE StripRight(_)
StripRight(s) ==
    IF s # <<>> /\ s[Len(s)] \in {".", "_"} THEN StripRight(SubSeq(s, 1, Len(s) - 1)) ELSE s

\* werkzeug.utils.secure_filename: drop every character outside SafeChars,
\* then strip leading and trailing dots and underscores.
secure_filename(filename) == StripRight(StripLeft(KeepSafe(filename)))

(***************************************************************************)
(* Uploaded files                                                          *)
(***************************************************************************)

\* What the document library does with a file's content: it raises, or it
\* yields the text (a sequence of words).
Documents ==
    { [raises |-> TRUE,  words |-> <<>>],
      [raises |-> FALSE, words |-> <<"python", "developer">>],
      [raises |-> FALSE, words |-> <<"Error", "handling", "expert">>] }

PlainDoc == [raises |-> FALSE, words |-> <<"python", "developer">>]

JdNames ==
    { <<>>,                              \* no file selected
      <<"j",".","d","o","c","x">>,
      <<"j",".","t","x","t">>,
      <<".">> }                          \* sanitizes to the empty name

ResumeNames ==
    { <<"c","v",".","P","D","F">>,
      <<"n",".","t","x","t">> }

\* Files differing only in content the handler never reads are not told apart.
JdFiles ==
    { [filename |-> n, doc |-> d] : n \in {<<"j",".","d","o","c","x">>}, d \in Documents }
    \cup { [filename |-> n, doc |-> PlainDoc] : n \in JdNames \ {<<"j",".","d","o","c","x">>} }

ResumeFiles ==
    { [filename |-> n, doc |-> d] : n \in {<<"c","v",".","P","D","F">>}, d \in Documents }
    \cup { [filename |-> n, doc |-> PlainDoc] : n \in ResumeNames \ {<<"c","v",".","P","D","F">>} }

NoFile == [filename |-> <<>>, doc |-> PlainDoc]

SeqsUpTo(S, n) == UNION { [1..k -> S] : k \in 1..n }

\* request.files: the two parts may be absent; a present 'resumes' part holds
\* at least one file.
Requests ==
    { [has_resumes |-> TRUE, has_jd |-> TRUE, jd_file |-> j, resume_files |-> r] :
          j \in JdFiles, r \in SeqsUpTo(ResumeFiles, MaxResumes) }
    \cup { [has_resumes |-> FALSE, has_jd |-> TRUE, jd_file |-> NoFile, resume_files |-> <<>>],
           [has_resumes |-> TRUE, has_jd |-> FALSE, jd_file |-> NoFile, resume_files |-> <<NoFile>>],
           [has_resumes |-> FALSE, has_jd |-> FALSE, jd_file |-> NoFile, resume_files |-> <<>>] }

(***************************************************************************)
(* The model's reply and Python's dict.get                                 *)
(***************************************************************************)

\* A match_score: absent, null, the integer n, or the two-digit string "n"
\* (two-digit strings order as their numbers do).
Score(t, n) == [t |-> t, n |-> n]

\* One entry of external_links: link type and url.  A url is "null", "empty",
\* "plain" (no http prefix), "http" (an http url outside github.com) or
\* "github" (https://github.com/<user>).
Link(k, u) == [k |-> k, url |-> u]

\* The JSON object the prompt asks for, every section found; the additions
\* the handler makes to parsed_json start absent.
GoodJson ==
    [ kind |-> "obj",
      resume_data |-> "obj", projects |-> "some",
      external_links |-> "obj", links |-> <<>>,
      contact_info |-> "obj", email |-> "null",
      match_analysis |-> "obj", match_score |-> Score("int", 10),
      reasoning |-> "text", skills_possessed |-> "list",
      link_verification |-> [t |-> "absent", d |-> <<>>],
      github_analysis |-> "absent",
      email_notification |-> "absent" ]

FullJson ==
    [GoodJson EXCEPT !.links = << Link("github", "github") >>,
                     !.email = "addr", !.match_score = Score("int", 90)]

\* The JSON values the model replies with (kind "list": valid JSON, no object).
JsonValues ==
    { GoodJson, FullJson,
      [GoodJson EXCEPT !.kind = "list"],
      [GoodJson EXCEPT !.resume_data = "missing"],
      [GoodJson EXCEPT !.resume_data = "null"],
      [GoodJson EXCEPT !.projects = "empty"],
      [GoodJson EXCEPT !.projects = "null"],
      [GoodJson EXCEPT !.match_score = Score("str", 85)],
      [GoodJson EXCEPT !.match_score = Score("null", 0)],
      [GoodJson EXCEPT !.match_score = Score("missing", 0)],
      [GoodJson EXCEPT !.external_links = "null"],
      [GoodJson EXCEPT !.external_links = "empty_list"],
      [GoodJson EXCEPT !.external_links = "missing"],
      [GoodJson EXCEPT !.links = << Link("github", "http") >>],
      [GoodJson EXCEPT !.links = << Link("github", "plain"), Link("linkedin", "http") >>],
      [GoodJson EXCEPT !.contact_info = "null"],
      [GoodJson EXCEPT !.contact_info = "missing"],
      [GoodJson EXCEPT !.email = "empty"],
      [GoodJson EXCEPT !.email = "addr", !.reasoning = "empty", !.match_score = Score("int", 50)],
      [GoodJson EXCEPT !.email = "addr", !.reasoning = "list"],
      [GoodJson EXCEPT !.email = "addr", !.match_analysis = "null"],
      [GoodJson EXCEPT !.match_analysis = "null"],
      [GoodJson EXCEPT !.skills_possessed = "null"],
      [GoodJson EXCEPT !.email = "addr", !.match_score = Score("int", 50)] }

\* response.text: text that is no JSON, or a JSON value, bare or wrapped in a
\* ```json fence.
Replies ==
    { [json |-> FALSE, fenced |-> FALSE, value |-> GoodJson] }
    \cup { [json |-> TRUE, fenced |-> FALSE, value |-> v] : v \in JsonValues }
    \cup { [json |-> TRUE, fenced |-> TRUE, value |-> FullJson] }

NoReply == [json |-> FALSE, fenced |-> FALSE, value |-> GoodJson]

\* extracted_json_str.strip().replace('```json', '').replace('```', '')
clean(reply) == [reply EXCEPT !.fenced = FALSE]

\* json.loads: raises JSONDecodeError on anything but bare JSON.
json_loads(s) ==
    IF s.json /\ ~s.fenced THEN [ok |-> TRUE, value |-> s.value]
    ELSE [ok |-> FALSE, value |-> GoodJson]

\* Truthiness of a tagged JSON value.
Truthy(tag) == tag \notin {"missing", "null", "empty", "empty_list", "None"}

\* parsed_json.get("resume_data", {}).get(key): "AttributeError" when
\* parsed_json is no dict or resume_data is null; "None" when the key, or
\* resume_data itself, is absent.
ResumeDataGet(pj, key) ==
    IF pj.kind # "obj" \/ pj.resume_data = "null" THEN "AttributeError"
    ELSE IF pj.resume_data = "missing" \/ pj[key] \in {"missing", "null"} THEN "None"
    ELSE pj[key]

\* parsed_json.get("resume_data", {}).get(key, {}): as above, but the default
\* {} ("obj") stands in for an absent key and null stays null.
ResumeDataGetDict(pj, key) ==
    IF pj.kind # "obj" \/ pj.resume_data = "null" THEN "AttributeError"
    ELSE IF pj.resume_data = "missing" \/ pj[key] = "missing" THEN "obj"
    ELSE pj[key]

\* The entries of the dict that .get("external_links", {}) returned.
LinksOf(pj) ==
    IF pj.resume_data = "missing" \/ pj.external_links = "missing" THEN <<>> ELSE pj.links

\* contact_info.get("email"), contact_info a dict (possibly the default {}).
EmailOf(pj) ==
    IF pj.resume_data = "missing" \/ pj.contact_info = "missing"
       \/ pj.email \in {"missing", "null"} THEN "None"
    ELSE pj.email

\* parsed_json.get("match_analysis", {}): the default {} for an absent key.
MatchAnalysisOf(pj) ==
    IF pj.match_analysis = "missing" THEN "obj" ELSE pj.match_analysis

\* match_analysis.get("reasoning"), match_analysis a dict.
ReasoningOf(pj) ==
    IF pj.match_analysis = "missing" \/ pj.reasoning \in {"missing", "null"} THEN "None"
    ELSE pj.reasoning

(***************************************************************************)
(* Helpers of the handler                                                  *)
(***************************************************************************)

\* One external call of the history: who is 0 for the job description and i
\* for the i-th resume; ok tells whether the call succeeded.
Call(op, who, ok) == [op |-> op, who |-> who, ok |-> ok]

NoData == [GoodJson EXCEPT !.kind = "none"]

NoCsv == [header |-> FALSE, rows |-> <<>>]

NoResponse == [status |-> 0, error |-> "", detailed_results |-> <<>>, csv_summary |-> NoCsv]

ErrorResponse(status, error) ==
    [status |-> status, error |-> error, detailed_results |-> <<>>, csv_summary |-> NoCsv]

\* The in-band failure value of parse_file: f"Error parsing file: {e}".
ErrorText == <<"Error", "parsing", "file">>

\* parse_file's return value for the file saved at file_path: the library is
\* chosen by the path's suffix, no library is called for any other suffix.
parse_file(file_path, doc) ==
    IF \/ EndsWith(Lower(file_path), <<".","p","d","f">>)
       \/ EndsWith(Lower(file_path), <<".","d","o","c","x">>)
    THEN IF doc.raises THEN ErrorText ELSE doc.words
    ELSE <<>>

\* Whether parse_file caught an exception of the document library.
parse_file_caught(file_path, doc) ==
    /\ \/ EndsWith(Lower(file_path), <<".","p","d","f">>)
       \/ EndsWith(Lower(file_path), <<".","d","o","c","x">>)
    /\ doc.raises

\* A mutation of HasError: the failure value of parse_file is never noticed.
HasErrorNever(text) == FALSE

\* "Error" in text
HasError(text) == \E i \in 1..Len(text) : text[i] = "Error"

\* analysis_result after .update({"status": ..., "reason": ...}) or after
\* analysis_result["data"] = parsed_json.
Failed(filename, reason) ==
    [filename |-> filename, status |-> "FAILED", reason |-> reason,
     has_data |-> FALSE, data |-> NoData]

Rejected(filename) ==
    [filename |-> filename, status |-> "REJECTED", reason |-> "No projects found in resume.",
     has_data |-> FALSE, data |-> NoData]

WithData(filename, data) ==
    [filename |-> filename, status |-> "", reason |-> "", has_data |-> TRUE, data |-> data]

CurrentFile == request.resume_files[idx]

InLoop == idx \in 1..Len(request.resume_files)

\* The except clause of the loop body followed by all_results.append: the
\* resume is reported FAILED and the loop goes on to the next one.
FailResume(reason) ==
    /\ all_results' = Append(all_results, Failed(CurrentFile.filename, reason))
    /\ idx' = idx + 1
    /\ pc' = "loop"

(***************************************************************************)
(* The handler                                                             *)
(***************************************************************************)

Init ==
    /\ variant \in {"app", "api"}
    /\ request \in Requests
    /\ pc = "validate"
    /\ idx = 0
    /\ uploads = {}
    /\ jd_text = <<>>
    /\ resume_text = <<>>
    /\ extracted = NoReply
    /\ parsed_json = NoData
    /\ all_results = <<>>
    /\ csv_output = NoCsv
    /\ response = NoResponse
    /\ calls = <<>>
    /\ folder = <<>>
    /\ handlers = <<>>

\* A mutation of RequestInvalid: the empty job-description filename passes.
RequestInvalidNoNameCheck ==
    \/ ~request.has_resumes \/ ~request.has_jd
    \/ request.resume_files = <<>>

\* The two validation tests of analyze_endpoint.
RequestInvalid ==
    \/ ~request.has_resumes \/ ~request.has_jd
    \/ request.resume_files = <<>>
    \/ request.jd_file.filename = <<>>

Validate ==
    /\ pc = "validate"
    /\ IF RequestInvalid
       THEN /\ response' = ErrorResponse(400,
                    IF ~request.has_resumes \/ ~request.has_jd
                    THEN "Both 'resumes' and 'job_description' files are required."
                    ELSE "No file selected for one or both inputs.")
            /\ pc' = "done"
       ELSE /\ pc' = "jd_save"
            /\ UNCHANGED response
    /\ UNCHANGED << variant, request, idx, uploads, jd_text, resume_text, extracted,
                    parsed_json, all_results, csv_output, calls >>
    /\ UNCHANGED conc

\* save_temp_file(jd_file): saving to the folder itself (an empty sanitized
\* name) raises, and nothing catches it here.
SaveJd ==
    /\ pc = "jd_save"
    /\ LET file_path == secure_filename(request.jd_file.filename) IN
       IF file_path = <<>>
       THEN /\ response' = ErrorResponse(500, "unhandled exception")
            /\ calls' = Append(calls, Call("save", 0, FALSE))
            /\ pc' = "done"
            /\ UNCHANGED uploads
       ELSE /\ uploads' = uploads \cup {file_path}
            /\ calls' = Append(calls, Call("save", 0, TRUE))
            /\ pc' = "jd_parse"
            /\ UNCHANGED response
    /\ UNCHANGED << variant, request, idx, jd_text, resume_text, extracted,
                    parsed_json, all_results, csv_output >>
    /\ UNCHANGED conc

\* jd_text = parse_file(...), the file removed, then the "Error" test.
ParseJd ==
    /\ pc = "jd_parse"
    /\ LET file_path == secure_filename(request.jd_file.filename)
           text == parse_file(file_path, request.jd_file.doc) IN
       /\ jd_text' = text
       /\ uploads' = uploads \ {file_path}
       /\ calls' = Append(calls,
              Call("extract", 0, ~parse_file_caught(file_path, request.jd_file.doc)))
       /\ IF HasError(text)
          THEN /\ response' = ErrorResponse(500, "Failed to process job description")
               /\ pc' = "done"
               /\ UNCHANGED idx
          ELSE /\ pc' = "loop"
               /\ idx' = 1
               /\ UNCHANGED response
    /\ UNCHANGED << variant, request, resume_text, extracted, parsed_json,
                    all_results, csv_output >>
    /\ UNCHANGED conc

\* Top of the loop body: the extension test.
BeginResume ==
    /\ pc = "loop"
    /\ InLoop
    /\ IF ~allowed_file(CurrentFile.filename)
       THEN FailResume("Invalid file type")
       ELSE /\ pc' = "r_save"
            /\ UNCHANGED << idx, all_results >>
    /\ UNCHANGED << variant, request, uploads, jd_text, resume_text, extracted,
                    parsed_json, csv_output, response, calls >>
    /\ UNCHANGED conc

SaveResume ==
    /\ pc = "r_save"
    /\ uploads' = uploads \cup {secure_filename(CurrentFile.filename)}
    /\ calls' = Append(calls, Call("save", idx, TRUE))
    /\ pc' = "r_parse"
    /\ UNCHANGED << variant, request, idx, jd_text, resume_text, extracted,
                    parsed_json, all_results, csv_output, response >>
    /\ UNCHANGED conc

ParseResume ==
    /\ pc = "r_parse"
    /\ LET file_path == secure_filename(CurrentFile.filename)
           text == parse_file(file_path, CurrentFile.doc) IN
       /\ resume_text' = text
       /\ uploads' = uploads \ {file_path}
       /\ calls' = Append(calls,
              Call("extract", idx, ~parse_file_caught(file_path, CurrentFile.doc)))
       /\ IF HasError(text)
          THEN FailResume("Failed to parse file")
          ELSE /\ pc' = "r_llm"
               /\ UNCHANGED << idx, all_results >>
    /\ UNCHANGED << variant, request, jd_text, extracted, parsed_json,
                    csv_output, response >>
    /\ UNCHANGED conc

\* analyze_resume_and_jd: the remote call raises, or returns some text.
CallLLM ==
    /\ pc = "r_llm"
    /\ \/ /\ calls' = Append(calls, Call("llm", idx, FALSE))
          /\ FailResume("LLM call failed")
          /\ UNCHANGED extracted
       \/ \E r \in Replies :
            /\ extracted' = r
            /\ calls' = Append(calls, Call("llm", idx, TRUE))
            /\ pc' = "r_json"
            /\ UNCHANGED << idx, all_results >>
    /\ UNCHANGED << variant, request, uploads, jd_text, resume_text, parsed_json,
                    csv_output, response >>
    /\ UNCHANGED conc

\* json.loads of the cleaned reply, then the projects gate.
ParseReply ==
    /\ pc = "r_json"
    /\ LET loaded == json_loads(clean(extracted))
           projects == ResumeDataGet(loaded.value, "projects") IN
       /\ calls' = Append(calls, Call("parse_json", idx, loaded.ok))
       /\ IF ~loaded.ok
          THEN /\ FailResume("AI model returned invalid JSON.")
               /\ UNCHANGED parsed_json
          ELSE IF projects = "AttributeError"
          THEN /\ FailResume("AttributeError")
               /\ UNCHANGED parsed_json
          ELSE IF ~Truthy(projects)
          THEN /\ all_results' = Append(all_results, Rejected(CurrentFile.filename))
               /\ idx' = idx + 1
               /\ pc' = "loop"
               /\ UNCHANGED parsed_json
          ELSE /\ parsed_json' = loaded.value
               /\ pc' = IF variant = "app" THEN "r_links" ELSE "r_email"
               /\ UNCHANGED << idx, all_results >>
    /\ UNCHANGED << variant, request, uploads, jd_text, resume_text, extracted,
                    csv_output, response >>
    /\ UNCHANGED conc

(***************************************************************************)
(* Link verification, GitHub analysis, email (per resume)                  *)
(***************************************************************************)

\* url and isinstance(url, str) and url.startswith('http')
Probed(url) == url \in {"http", "github"}

\* "OK" for a 2xx status, "Broken" for any other, "Unreachable" when
\* requests.head raised.
ProbeOutcomes == {"OK", "Broken", "Unreachable"}

\* The outcomes the network may give the links of a dict, one per link;
\* links that are not probed get no outcome of their own.
OutcomesFor(links) ==
    { o \in [1..Len(links) -> ProbeOutcomes] :
          \A i \in 1..Len(links) : ~Probed(links[i].url) => o[i] = "OK" }

\* verify_external_links(links_dict), links_dict a dict, under outcomes o.
verify_external_links(links, o) ==
    [t |-> "dict",
     d |-> [i \in 1..Len(links) |->
               [k |-> links[i].k,
                res |-> IF Probed(links[i].url) THEN o[i] ELSE "Not Provided"]]]

\* The HEAD requests verify_external_links made, in order.
ProbeCalls(links, o, who) ==
    LET probed == SelectSeq([i \in 1..Len(links) |-> i], LAMBDA i : Probed(links[i].url))
    IN [j \in 1..Len(probed) |-> Call("probe", who, o[probed[j]] = "OK")]

\* dict.get(key) on a dict given by its entries: the value, or "None".
EntryGet(entries, key, field) ==
    IF \E i \in 1..Len(entries) : entries[i].k = key
    THEN entries[CHOOSE i \in 1..Len(entries) : entries[i].k = key][field]
    ELSE "None"

\* Lines 231-234 of app.py: the links are verified, then links.get("github")
\* raises when external_links was null or a list.
VerifyLinks ==
    /\ pc = "r_links"
    /\ LET links_dict == ResumeDataGetDict(parsed_json, "external_links") IN
       IF links_dict # "obj"
       THEN /\ FailResume("AttributeError")
            /\ UNCHANGED << parsed_json, calls >>
       ELSE \E o \in OutcomesFor(LinksOf(parsed_json)) :
              /\ parsed_json' = [parsed_json EXCEPT !.link_verification =
                                     verify_external_links(LinksOf(parsed_json), o)]
              /\ calls' = calls \o ProbeCalls(LinksOf(parsed_json), o, idx)
              /\ pc' = "r_github"
              /\ UNCHANGED << idx, all_results >>
    /\ UNCHANGED << variant, request, uploads, jd_text, resume_text, extracted,
                    csv_output, response >>
    /\ UNCHANGED conc

\* A mutation of GithubGate: the verification result is not consulted.
GithubGateUnverified(pj) ==
    Truthy(EntryGet(LinksOf(pj), "github", "url"))

\* github_url and parsed_json["link_verification"].get("github") == "OK"
GithubGate(pj) ==
    /\ Truthy(EntryGet(LinksOf(pj), "github", "url"))
    /\ EntryGet(pj.link_verification.d, "github", "res") = "OK"

\* analyze_github_profile is called when the gate is open; it queries the
\* REST client only for a github.com url with a user name in it.
GithubAnalysis ==
    /\ pc = "r_github"
    /\ IF GithubGate(parsed_json)
       THEN IF EntryGet(LinksOf(parsed_json), "github", "url") # "github"
            THEN /\ parsed_json' = [parsed_json EXCEPT !.github_analysis = "Not a valid GitHub URL"]
                 /\ UNCHANGED calls
            ELSE \E ok \in BOOLEAN :
                   /\ parsed_json' = [parsed_json EXCEPT !.github_analysis =
                          IF ok THEN "Analysis Complete" ELSE "Error accessing GitHub profile"]
                   /\ calls' = Append(calls, Call("github", idx, ok))
       ELSE UNCHANGED << parsed_json, calls >>
    /\ pc' = "r_email"
    /\ UNCHANGED << variant, request, idx, uploads, jd_text, resume_text, extracted,
                    all_results, csv_output, response >>
    /\ UNCHANGED conc

\* A mutation of EmailGate: the reasoning is not required.
EmailGateNoReasoning(pj) == Truthy(EmailOf(pj))

\* contact_info.get("email") and match_analysis.get("reasoning"), both dicts.
EmailGate(pj) == Truthy(EmailOf(pj)) /\ Truthy(ReasoningOf(pj))

\* The outcomes of the email block (contact_info ... email_notification):
\* "AttributeError" (contact_info null; match_analysis null once the email is
\* there; reasoning without strip()), "smtp" (the message is handed to SMTP)
\* or "skip".
EmailStep(pj) ==
    IF ResumeDataGetDict(pj, "contact_info") # "obj" THEN "AttributeError"
    ELSE IF ~Truthy(EmailOf(pj)) THEN "skip"
    ELSE IF MatchAnalysisOf(pj) # "obj" THEN "AttributeError"
    ELSE IF ~EmailGate(pj) THEN "skip"
    ELSE IF ReasoningOf(pj) \in {"list", "None"} THEN "AttributeError"
    ELSE "smtp"

\* The email block, then analysis_result["data"] = parsed_json and the append.
SendEmail ==
    /\ pc = "r_email"
    /\ LET step == EmailStep(parsed_json) IN
       IF step = "AttributeError"
       THEN /\ FailResume("AttributeError")
            /\ UNCHANGED << parsed_json, calls >>
       ELSE /\ IF step = "smtp"
               THEN \E sent \in BOOLEAN :
                      /\ parsed_json' = [parsed_json EXCEPT !.email_notification =
                                             IF sent THEN "sent" ELSE "failed"]
                      /\ calls' = Append(calls, Call("email", idx, sent))
               ELSE UNCHANGED << parsed_json, calls >>
            /\ all_results' = Append(all_results, WithData(CurrentFile.filename, parsed_json'))
            /\ idx' = idx + 1
            /\ pc' = "loop"
    /\ UNCHANGED << variant, request, uploads, jd_text, resume_text, extracted,
                    csv_output, response >>
    /\ UNCHANGED conc

(***************************************************************************)
(* CSV summary, ranking, response                                          *)
(***************************************************************************)

\* x.get("data", {}).get("match_analysis", {}).get("match_score", 0)
SortKey(r) ==
    IF ~r.has_data \/ r.data.match_analysis = "missing" \/ r.data.match_score.t = "missing"
    THEN Score("int", 0)
    ELSE r.data.match_score

\* The key lambda raises AttributeError on a null match_analysis.
KeyRaises(r) == r.has_data /\ r.data.match_analysis = "null"

\* Python orders int with int and str with str; None orders with nothing.
Comparable(a, b) == a.t = b.t /\ a.t \in {"int", "str"}

\* list.sort raises: a key cannot be computed, or (two or more elements) two
\* keys cannot be compared.
SortRaises(rs) ==
    \/ \E i \in 1..Len(rs) : KeyRaises(rs[i])
    \/ \E i, j \in 1..Len(rs) : i # j /\ ~Comparable(SortKey(rs[i]), SortKey(rs[j]))

\* x is placed behind every element whose key is not smaller than its own.
RECURSIVE InsertDesc(_, _)
InsertDesc(x, rs) ==
    IF rs = <<>> THEN <<x>>
    ELSE IF SortKey(Head(rs)).n >= SortKey(x).n THEN <<Head(rs)>> \o InsertDesc(x, Tail(rs))
    ELSE <<x>> \o rs

\* list.sort(key=..., reverse=True): stable, largest key first.
RECURSIVE SortDesc(_)
SortDesc(rs) ==
    IF rs = <<>> THEN <<>>
    ELSE InsertDesc(rs[Len(rs)], SortDesc(SubSeq(rs, 1, Len(rs) - 1)))

\* [r for r in all_results if r.get("data")]
Successful(rs) == SelectSeq(rs, LAMBDA r : r.has_data)

\* Building the row raises: match_analysis is null (AttributeError), or
\* ", ".join(None) for a null skills list (TypeError).
RowRaises(r) ==
    \/ r.data.match_analysis = "null"
    \/ r.data.match_analysis = "obj" /\ r.data.skills_possessed = "null"

\* The row's email and score cells.
Row(r) == [email |-> EmailOf(r.data), score |-> r.data.match_score]

\* The rows written before the first one that raises.
RECURSIVE RowsUntilRaise(_)
RowsUntilRaise(rs) ==
    IF rs = <<>> \/ RowRaises(Head(rs)) THEN <<>>
    ELSE <<Row(Head(rs))>> \o RowsUntilRaise(Tail(rs))

\* app.py: csv_output is set by output.getvalue() at the end of the try
\* block, so an exception in any row leaves the empty string.
CsvApp(rs) ==
    IF \E i \in 1..Len(rs) : rs[i].has_data /\ RowRaises(rs[i]) THEN NoCsv
    ELSE [header |-> TRUE, rows |-> RowsUntilRaise(Successful(rs))]

\* api/index.py: csv_rows is appended to as the try block goes, so an
\* exception keeps the header and the rows written so far.
CsvApi(rs) ==
    IF SortRaises(Successful(rs)) THEN [header |-> TRUE, rows |-> <<>>]
    ELSE [header |-> TRUE, rows |-> RowsUntilRaise(SortDesc(Successful(rs)))]

\* The loop is over: the CSV summary is generated.
GenerateCsv ==
    /\ pc = "loop"
    /\ idx > Len(request.resume_files)
    /\ csv_output' = IF variant = "app" THEN CsvApp(all_results) ELSE CsvApi(all_results)
    /\ pc' = IF variant = "app" THEN "respond" ELSE "sort"
    /\ UNCHANGED << variant, request, idx, uploads, jd_text, resume_text, extracted,
                    parsed_json, all_results, response, calls >>
    /\ UNCHANGED conc

\* api/index.py line 210: all_results.sort, outside any try block.
SortResults ==
    /\ pc = "sort"
    /\ IF SortRaises(all_results)
       THEN /\ response' = ErrorResponse(500, "unhandled exception")
            /\ calls' = Append(calls, Call("sort", 0, FALSE))
            /\ pc' = "done"
            /\ UNCHANGED all_results
       ELSE /\ all_results' = SortDesc(all_results)
            /\ calls' = Append(calls, Call("sort", 0, TRUE))
            /\ pc' = "respond"
            /\ UNCHANGED response
    /\ UNCHANGED << variant, request, idx, uploads, jd_text, resume_text, extracted,
                    parsed_json, csv_output >>
    /\ UNCHANGED conc

\* jsonify(...) / render_template(...): the report is serialized and sent.
Respond ==
    /\ pc = "respond"
    /\ response' = [status |-> 200, error |-> "", detailed_results |-> all_results,
                    csv_summary |-> csv_output]
    /\ calls' = Append(calls, Call("serialize", 0, TRUE))
    /\ pc' = "done"
    /\ UNCHANGED << variant, request, idx, uploads, jd_text, resume_text, extracted,
                    parsed_json, all_results, csv_output >>
    /\ UNCHANGED conc

Next ==
    \/ Validate
    \/ SaveJd
    \/ ParseJd
    \/ BeginResume
    \/ SaveResume
    \/ ParseResume
    \/ CallLLM
    \/ ParseReply
    \/ VerifyLinks
    \/ GithubAnalysis
    \/ SendEmail
    \/ GenerateCsv
    \/ SortResults
    \/ Respond

Spec == Init /\ [][Next]_vars

(***************************************************************************)
(* Properties                                                              *)
(***************************************************************************)

Range(seq) == { seq[i] : i \in 1..Len(seq) }

\* A name ends in an allowed extension, whatever its case.
EndsInAllowedExtension(name) ==
    \/ EndsWith(Lower(name), <<".","p","d","f">>)
    \/ EndsWith(Lower(name), <<".","d","o","c","x">>)

\* The uploaded file a call is about.
FileOf(who) == IF who = 0 THEN request.jd_file ELSE request.resume_files[who]

\* The score an entry is ranked by, an entry without a score counting as 0.
RankScore(r) ==
    IF r.has_data /\ r.data.match_analysis = "obj" /\ r.data.match_score.t \in {"int", "str"}
    THEN r.data.match_score.n
    ELSE 0

\* The step of the current transition appended exactly one call, of this op.
Appended(op) ==
    /\ Len(calls') = Len(calls) + 1
    /\ SubSeq(calls', 1, Len(calls)) = calls
    /\ calls'[Len(calls')].op = op

\* C1: the detailed results of a successful response are in non-increasing
\* order of match score, an entry without a score counting as 0.
C1_ReportRanked ==
    response.status = 200 =>
        \A i, j \in 1..Len(response.detailed_results) :
            i < j => RankScore(response.detailed_results[i])
                        >= RankScore(response.detailed_results[j])

\* The request lacks a part, or its job description has an empty filename.
C2_BadRequest ==
    \/ ~request.has_resumes
    \/ ~request.has_jd
    \/ request.jd_file.filename = <<>>

\* C2: a request lacking 'resumes' or 'job_description', or with an empty
\* job-description filename, is answered 400 and causes no save, no text
\* extraction, no LLM call and no email.
C2_ValidationFirst ==
    C2_BadRequest =>
        /\ pc \in {"validate", "done"}
        /\ pc = "done" => response.status = 400
        /\ calls = <<>>
        /\ uploads = {}

C2_Witness ==
    /\ request.has_resumes /\ request.has_jd
    /\ request.jd_file.filename = <<>>
    /\ pc = "done"
    /\ response.status = 400

\* C3: no file whose name does not end in an allowed extension is saved,
\* text-extracted or forwarded to the LLM, the job description included.
C3_OnlyAllowedFilesTouched ==
    \A c \in Range(calls) :
        /\ c.op \in {"save", "extract"} => EndsInAllowedExtension(FileOf(c.who).filename)
        /\ c.op = "llm" => /\ EndsInAllowedExtension(FileOf(c.who).filename)
                           /\ EndsInAllowedExtension(request.jd_file.filename)

\* The place of a call in the handler's order: the job description, then
\* the resumes one by one, then ranking and serialization.
Phase(c) ==
    IF c.op \in {"sort", "serialize"} THEN Len(request.resume_files) + 1 ELSE c.who

StepRank(op) ==
    CASE op = "save" -> 1
      [] op = "extract" -> 2
      [] op = "llm" -> 3
      [] op = "parse_json" -> 4
      [] op = "probe" -> 5
      [] op = "github" -> 6
      [] op = "email" -> 7
      [] op = "sort" -> 8
      [] op = "serialize" -> 9

\* The step a step of a resume needs to have succeeded just before.
Needs(op) ==
    CASE op = "extract" -> "save"
      [] op = "llm" -> "extract"
      [] op = "parse_json" -> "llm"
      [] OTHER -> "parse_json"

\* C4: the job description is extracted before any resume is touched; the
\* steps of a resume happen in the order save, extract, LLM, JSON parse,
\* probe, GitHub, email, none unless the earlier mandatory steps of that
\* resume succeeded; resume i is finished before resume i+1 begins; ranking
\* and serialization come after the last resume.  (The order on calls is
\* transitive, so it is stated of each call and the one before it.)
C4_SequentialOrder ==
    /\ \A q \in 2..Len(calls) :
          LET b == calls[q - 1]
              c == calls[q] IN
          \/ Phase(b) < Phase(c)
          \/ /\ Phase(b) = Phase(c)
             /\ \/ StepRank(b.op) < StepRank(c.op)
                \/ b.op = "probe" /\ c.op = "probe"
    /\ \A q \in 1..Len(calls) :
          LET c == calls[q] IN
          /\ c.who >= 1 =>
                /\ \E p \in 1..(q-1) : calls[p] = Call("extract", 0, TRUE)
                /\ c.op # "save" =>
                      \E p \in 1..(q-1) : calls[p] = Call(Needs(c.op), c.who, TRUE)
          /\ c.op \in {"sort", "serialize"} =>
                /\ Len(all_results) = Len(request.resume_files)
                /\ idx > Len(request.resume_files)

C4_Witness ==
    /\ pc = "done"
    /\ response.status = 200
    /\ Len(request.resume_files) = 2
    /\ \E c \in Range(calls) : c.op = "email" /\ c.who = 1
    /\ \E c \in Range(calls) : c.op = "github" /\ c.who = 2
    /\ \E c \in Range(calls) : c.op = "extract" /\ c.who = 2 /\ c.ok

\* C5: the CSV summary of a successful response is the header row and one
\* row per resume whose result carries data.
C5_CsvRowPerData ==
    response.status = 200 =>
        /\ response.csv_summary.header
        /\ Len(response.csv_summary.rows)
              = Cardinality({ i \in 1..Len(response.detailed_results) :
                                  response.detailed_results[i].has_data })

\* The number of emails handed to SMTP for resume i.
EmailsFor(cs, i) == Cardinality({ q \in 1..Len(cs) : cs[q].op = "email" /\ cs[q].who = i })

\* C6: at most one email is attempted per resume, and only for a reply that
\* parsed as JSON, lists a project and holds a non-empty candidate email and
\* a non-empty reasoning; a resume reported FAILED or REJECTED caused none.
C6_EmailGuarded ==
    [][ /\ Appended("email") =>
              /\ calls'[Len(calls')].who = idx
              /\ EmailsFor(calls, idx) = 0
              /\ Call("parse_json", idx, TRUE) \in Range(calls)
              /\ extracted.json
              /\ extracted.value.kind = "obj"
              /\ extracted.value.resume_data = "obj"
              /\ extracted.value.projects = "some"
              /\ extracted.value.contact_info = "obj"
              /\ extracted.value.email = "addr"
              /\ extracted.value.match_analysis = "obj"
              /\ extracted.value.reasoning = "text"
        /\ Len(all_results') = Len(all_results) + 1 =>
              /\ all_results'[idx].status \in {"FAILED", "REJECTED"}
                     => EmailsFor(calls', idx) = 0
              /\ EmailsFor(calls', idx) <= 1
      ]_vars

C6_Witness ==
    /\ pc = "done"
    /\ Len(request.resume_files) = 2
    /\ EmailsFor(calls, 1) = 1
    /\ EmailsFor(calls, 2) = 1
    /\ \E c \in Range(calls) : c.op = "email" /\ ~c.ok

\* The entries of a result's external_links and of its link_verification.
GithubLinkOk(pj) ==
    /\ EntryGet(LinksOf(pj), "github", "url") \in {"plain", "http", "github"}
    /\ EntryGet(pj.link_verification.d, "github", "res") = "OK"

\* C7: in app.py the GitHub REST client is queried for a resume only if the
\* reply gives a non-empty github link whose HEAD probe returned 2xx; a
\* result whose link is missing, broken or unreachable carries no
\* github_analysis; links are probed only for resumes listing a project.
C7_GithubGated ==
    [][ /\ Appended("github") =>
              /\ variant = "app"
              /\ calls'[Len(calls')].who = idx
              /\ GithubLinkOk(parsed_json)
              /\ \E q \in 1..Len(calls) : calls[q] = Call("probe", idx, TRUE)
        /\ calls' # calls /\ calls'[Len(calls')].op = "probe" =>
              /\ variant = "app"
              /\ parsed_json.projects = "some"
        /\ \A i \in 1..Len(all_results') :
              all_results'[i].data.github_analysis # "absent"
                  => all_results'[i].has_data /\ GithubLinkOk(all_results'[i].data)
      ]_vars

C7_Witness ==
    /\ variant = "app"
    /\ \E c \in Range(calls) : c.op = "github" /\ c.ok
    /\ \E c \in Range(calls) : c.op = "probe" /\ ~c.ok
    /\ \E i \in 1..Len(all_results) :
          /\ all_results[i].has_data
          /\ all_results[i].data.github_analysis = "absent"
          /\ EntryGet(all_results[i].data.link_verification.d, "github", "res") = "Broken"

\* C8: once the job description has been extracted and accepted, the
\* handler ends with a success response holding one entry per uploaded
\* resume, whatever the LLM replied and whichever external call failed.
C8_AlwaysReports ==
    (pc = "done" /\ idx >= 1) =>
        /\ response.status = 200
        /\ Len(response.detailed_results) = Len(request.resume_files)

\* A reply that follows the prompt: a JSON object with a non-empty projects
\* list, every other section present, or null or an empty list where the
\* prompt allows that for a section not found.
FollowsPrompt(reply) ==
    /\ reply.json
    /\ reply.value.kind = "obj"
    /\ reply.value.resume_data = "obj"
    /\ reply.value.projects = "some"
    /\ reply.value.external_links \in {"obj", "null", "empty_list"}
    /\ reply.value.contact_info \in {"obj", "null"}
    /\ reply.value.email \in {"addr", "null", "empty"}
    /\ reply.value.match_analysis = "obj"
    /\ reply.value.match_score.t = "int"
    /\ reply.value.reasoning \in {"text", "null", "empty"}
    /\ reply.value.skills_possessed \in {"list", "null"}

\* C9: a resume whose reply follows the prompt gets a result that carries
\* the analysis data, is not FAILED, and has its row in the CSV summary.
C9_PromptReplyAccepted ==
    /\ ( /\ pc = "loop" /\ idx >= 2
         /\ Call("llm", idx - 1, TRUE) \in Range(calls)
         /\ FollowsPrompt(extracted) )
       => /\ all_results[idx - 1].has_data
          /\ all_results[idx - 1].status # "FAILED"
    /\ ( /\ response.status = 200
         /\ Len(request.resume_files) = 1
         /\ Call("llm", 1, TRUE) \in Range(calls)
         /\ FollowsPrompt(extracted) )
       => Len(response.csv_summary.rows) = 1

\* C10: a document counts as unparseable only when parse_file caught an
\* exception: a 500 for the job description, or a resume FAILED with
\* 'Failed to parse file', implies the caught exception, and every text
\* extracted without one is forwarded to the LLM.
C10_UnparseableOnlyOnError ==
    /\ response.error = "Failed to process job description"
          => Call("extract", 0, FALSE) \in Range(calls)
    /\ pc = "loop" =>
          \A i \in 1..Len(all_results) :
             /\ all_results[i].reason = "Failed to parse file"
                   => Call("extract", i, FALSE) \in Range(calls)
             /\ Call("extract", i, TRUE) \in Range(calls)
                   => \E c \in Range(calls) : c.op = "llm" /\ c.who = i

\* An entry is in exactly one of the three outcomes.
ThreeOutcomes(r) ==
    \/ r.has_data /\ r.status = ""
    \/ ~r.has_data /\ r.status = "REJECTED" /\ r.reason = "No projects found in resume."
    \/ ~r.has_data /\ r.status = "FAILED" /\ r.reason # ""

\* The reply is a JSON object without a projects list: resume_data or
\* projects is absent or null, or projects is the empty list.
NoProjects(reply) ==
    /\ reply.json
    /\ reply.value.kind = "obj"
    /\ \/ reply.value.resume_data \in {"missing", "null"}
       \/ reply.value.projects \in {"missing", "null", "empty"}

\* The resume just finished is reported REJECTED.
LastRejected ==
    /\ pc = "loop" /\ idx >= 2
    /\ all_results[idx - 1].status = "REJECTED"

\* C11 (entries): every entry of the detailed results is in exactly one of
\* the three outcomes: data and no status, REJECTED with its reason and no
\* data, FAILED with a reason and no data.
C11_ThreeOutcomes ==
    /\ \A i \in 1..Len(all_results) : ThreeOutcomes(all_results[i])
    /\ \A i \in 1..Len(response.detailed_results) :
          ThreeOutcomes(response.detailed_results[i])

\* C11 (no calls): a REJECTED resume caused no link probe, no GitHub query
\* and no email, and its reply parsed as JSON without a projects list.
C11_RejectedQuiet ==
    LastRejected =>
        /\ Call("parse_json", idx - 1, TRUE) \in Range(calls)
        /\ NoProjects(extracted)
        /\ \A c \in Range(calls) :
              c.who = idx - 1 => c.op \notin {"probe", "github", "email"}

\* C11: every entry is in exactly one of the three outcomes; an entry is
\* REJECTED exactly when the reply parsed as JSON and its projects list is
\* missing, null or empty; a REJECTED resume caused no link probe, no GitHub
\* query and no email.
C11_RejectedExactly ==
    /\ C11_ThreeOutcomes
    /\ C11_RejectedQuiet
    /\ ( /\ pc = "loop" /\ idx >= 2
         /\ Call("parse_json", idx - 1, TRUE) \in Range(calls)
         /\ NoProjects(extracted) )
       => all_results[idx - 1].status = "REJECTED"

(***************************************************************************)
(* Concurrent requests on the shared upload folder                         *)
(*                                                                         *)
(* Two /analyze requests are handled at once (the server runs one thread  *)
(* per request).  Of each handler only the steps that touch the upload    *)
(* folder are followed: file.save, the document library's read, and       *)
(* os.remove, for the job description and then for each resume.           *)
(***************************************************************************)

\* The requests handled concurrently.
Handlers == {1, 2}

\* Bound of the concurrent model: resumes per request.
ConcResumes == 1

\* Uploaded names: the first two sanitize to the same path.
ConcJdNames == { <<"c","v",".","P","D","F">>, <<"j",".","d","o","c","x">> }

ConcResumeNames ==
    { <<"c","v",".","P","D","F">>,
      <<"_","c","v",".","P","D","F">>,
      <<"n",".","t","x","t">> }

\* The names a request uploads: the job description, then its resumes.
ConcUploads ==
    { f \in [1..(1 + ConcResumes) -> ConcJdNames \cup ConcResumeNames] :
          /\ f[1] \in ConcJdNames
          /\ \A k \in 2..(1 + ConcResumes) : f[k] \in ConcResumeNames }

OwnerWord(h) == IF h = 1 THEN "first" ELSE "second"

\* The content of the k-th file request h uploads: a document that parses,
\* whose text names the request and (by its length) the file.
OwnDoc(h, k) ==
    [raises |-> FALSE, words |-> <<OwnerWord(h)>> \o [i \in 1..k |-> "page"]]

\* Opening a path that is not in the folder raises in the document library.
MissingDoc == [raises |-> TRUE, words |-> <<>>]

ConcInit ==
    /\ variant = "app"
    /\ request = [has_resumes |-> FALSE, has_jd |-> FALSE, jd_file |-> NoFile,
                  resume_files |-> <<>>]
    /\ pc = "concurrent"
    /\ idx = 0
    /\ uploads = {}
    /\ jd_text = <<>>
    /\ resume_text = <<>>
    /\ extracted = NoReply
    /\ parsed_json = NoData
    /\ all_results = <<>>
    /\ csv_output = NoCsv
    /\ response = NoResponse
    /\ calls = <<>>
    /\ folder = <<>>
    /\ handlers \in [Handlers -> { [files |-> f, k |-> 1, pc |-> "save", texts |-> <<>>] :
                                       f \in ConcUploads }]

\* The path handler h is working on.
ConcPath(h) == secure_filename(handlers[h].files[handlers[h].k])

\* The handler moves on to its next file, or returns after the last one.
NextFile(hs, h) ==
    IF hs[h].k = Len(hs[h].files)
    THEN [hs EXCEPT ![h].pc = "returned"]
    ELSE [hs EXCEPT ![h].k = @ + 1, ![h].pc = "save"]

\* save_temp_file: the upload is written at the sanitized path, over
\* whatever is there.  A resume of a type that is not allowed is skipped.
ConcSave(h) ==
    /\ handlers[h].pc = "save"
    /\ IF handlers[h].k >= 2 /\ ~allowed_file(handlers[h].files[handlers[h].k])
       THEN /\ handlers' = NextFile(handlers, h)
            /\ UNCHANGED folder
       ELSE /\ folder' = [p \in DOMAIN folder \cup {ConcPath(h)} |->
                             IF p = ConcPath(h) THEN OwnDoc(h, handlers[h].k)
                             ELSE folder[p]]
            /\ handlers' = [handlers EXCEPT ![h].pc = "read"]
    /\ UNCHANGED single

\* parse_file, the try block: the library reads what is at the path now.
ConcRead(h) ==
    /\ handlers[h].pc = "read"
    /\ LET doc == IF ConcPath(h) \in DOMAIN folder THEN folder[ConcPath(h)] ELSE MissingDoc
       IN handlers' = [handlers EXCEPT
              ![h].texts = Append(@, [k |-> handlers[h].k,
                                      text |-> parse_file(ConcPath(h), doc)]),
              ![h].pc = "remove"]
    /\ UNCHANGED << single, folder >>

\* parse_file, the finally block: the path is removed if it exists; then
\* the handler's "Error" test: 500 for the job description, FAILED and the
\* next resume otherwise.
ConcRemove(h) ==
    /\ handlers[h].pc = "remove"
    /\ folder' = [p \in DOMAIN folder \ {ConcPath(h)} |-> folder[p]]
    /\ handlers' =
          IF handlers[h].k = 1 /\ HasError(handlers[h].texts[Len(handlers[h].texts)].text)
          THEN [handlers EXCEPT ![h].pc = "returned"]
          ELSE NextFile(handlers, h)
    /\ UNCHANGED single

ConcNext == \E h \in Handlers : ConcSave(h) \/ ConcRead(h) \/ ConcRemove(h)

ConcSpec == ConcInit /\ [][ConcNext]_vars

\* C12 (cleanup): when a request has returned, no file it saved is left in
\* the upload folder.
C12_FilesRemoved ==
    \A h \in DOMAIN handlers :
        handlers[h].pc = "returned" =>
            \A p \in DOMAIN folder : folder[p].words[1] # OwnerWord(h)

\* C12: under every interleaving of two requests' save, read and delete
\* steps, each request extracts the text of the file it uploaded itself,
\* never the other request's content and never a file the other request
\* deleted; and a request that has returned left none of its files behind.
C12_NoInterference ==
    /\ \A h \in DOMAIN handlers :
          \A i \in 1..Len(handlers[h].texts) :
              handlers[h].texts[i].text = OwnDoc(h, handlers[h].texts[i].k).words
    /\ C12_FilesRemoved

====
